---- MODULE Spec2Model ----
(***************************************************************************)
(* Model of src/main.ts of xlog-images: the archive file ./uploaded.json,  *)
(* the Cloudinary store, the backup and listing files, and the upload-all, *)
(* delete-all and refresh branches of main with one step per await.        *)
(*                                                                         *)
(* Strings are sequences of tokens ("/", ".jpg", "cat", ...), so that the  *)
(* string operations of the source (replace, endsWith, includes, extname)  *)
(* are computed and not assumed.  A CloudImageInfo is modelled by its      *)
(* publicId and originalFilename; url and result are opaque payloads that  *)
(* no branch of the program inspects.                                      *)
(***************************************************************************)
EXTENDS Integers, Sequences, FiniteSets, TLC

(* ------------------------------ bounds ------------------------------ *)

\* number of calendar dates the clock can show
MaxDay == 2
\* number of invocations of the tool in one behaviour
MaxRuns == 4
\* number of assets removed from the store out-of-band in one behaviour
MaxRemoved == 1

(* --------------------------- configuration --------------------------- *)

cwd == <<"/", "cwd">>
uploadDir == cwd \o <<"/", "upload">>

max_results == 500

\* digits are tokens of their own, so that the text of a date is the same
\* sequence however it was put together
y2024 == <<"2", "0", "2", "4">>

\* the path uploadDir/year/month/day/name
dated(year, month, day, name) ==
  uploadDir \o <<"/">> \o year \o <<"/">> \o month \o <<"/">> \o day \o <<"/">> \o name

\* the contents of uploadDir the model is run on, each in readdir order
UploadDirs ==
  { << dated(y2024, <<"1">>, <<"2">>, <<"cat", ".jpg">>),
       dated(y2024, <<"1">>, <<"2">>, <<"cat", ".png">>),
       dated(y2024, <<"1">>, <<"2">>, <<".gitkeep">>) >>,
    << dated(y2024, <<"1">>, <<"2">>, <<"cat", ".jpg">>),
       dated(y2024, <<"3">>, <<"4">>, <<"dog", ".jpg">>),
       dated(y2024, <<"3">>, <<"4">>, <<".gitkeep">>),
       dated(y2024, <<"3">>, <<"4">>, <<"memo", ".txt">>) >> }

(* ------------------------- string operations ------------------------- *)

\* positions at which pat occurs in s
Occurrences(s, pat) ==
  { i \in 1..(Len(s) - Len(pat) + 1) : SubSeq(s, i, i + Len(pat) - 1) = pat }

Min(S) == CHOOSE x \in S : \A y \in S : x <= y

\* String.prototype.replace with a string pattern: first occurrence only
Replace(s, pat, rep) ==
  LET at == Occurrences(s, pat)
  IN  IF pat = <<>> THEN rep \o s
      ELSE IF at = {} THEN s
      ELSE SubSeq(s, 1, Min(at) - 1) \o rep \o SubSeq(s, Min(at) + Len(pat), Len(s))

endsWith(s, suffix) ==
  /\ Len(s) >= Len(suffix)
  /\ SubSeq(s, Len(s) - Len(suffix) + 1, Len(s)) = suffix

includes(s, pat) == pat = <<>> \/ Occurrences(s, pat) # {}

\* path.basename: what follows the last separator
basename(p) ==
  LET seps == { i \in 1..Len(p) : p[i] = "/" }
  IN  IF seps = {} THEN p
      ELSE SubSeq(p, (CHOOSE i \in seps : \A j \in seps : j <= i) + 1, Len(p))

ExtTokens == {".jpg", ".png", ".txt", ".gitkeep"}

\* path.extname: from the last "." of the basename, "" for a dot-file
extname(p) ==
  LET b == basename(p)
  IN  IF Len(b) >= 2 /\ b[Len(b)] \in ExtTokens THEN <<b[Len(b)]>> ELSE <<>>

\* BunFile.type: the MIME type Bun derives from the file extension
fileType(p) ==
  LET e == extname(p)
  IN  IF e = <<".jpg">> THEN <<"image", "/", "jpeg">>
      ELSE IF e = <<".png">> THEN <<"image", "/", "png">>
      ELSE IF e = <<".txt">> THEN <<"text", "/", "plain">>
      ELSE <<"application", "/", "octet-stream">>

\* file.type.split('/') reduced to its idx === 0 element
primaryType(p) == fileType(p)[1]

trimFilePaths(filePaths) ==
  SelectSeq(filePaths, LAMBDA filePath : ~endsWith(filePath, <<".gitkeep">>))

generatePublicId(filePath) ==
  LET relativePath == Replace(filePath, uploadDir \o <<"/">>, <<>>)
  IN  Replace(relativePath, extname(relativePath), <<>>)

\* the CloudImageInfo uploadImage builds from a successful upload
imageInfoOf(imagePath) ==
  [publicId |-> generatePublicId(imagePath), originalFilename |-> basename(imagePath)]

(* ------------------------- archive operations ------------------------- *)

hasPublicId(images, publicId) ==
  \E i \in 1..Len(images) : images[i].publicId = publicId

\* Array.prototype.find over archive.uploaded; <<>> stands for undefined
getImageInfo(arch, publicId) ==
  LET hits == { i \in 1..Len(arch.uploaded) : arch.uploaded[i].publicId = publicId }
  IN  IF hits = {} THEN <<>> ELSE <<arch.uploaded[Min(hits)]>>

\* pushUploaded pushing on the other array of the archive
pushedToDestroyed(arch, imageInfo) ==
  [arch EXCEPT !.destroyed = Append(@, imageInfo)]

\* the archive pushUploaded serializes
pushed(arch, imageInfo) ==
  [arch EXCEPT !.uploaded = Append(@, imageInfo)]

\* deleteCloudAsset without the filter on archive.uploaded
movedToDestroyedUnfiltered(arch, imageInfo, publicId) ==
  [arch EXCEPT !.destroyed = Append(@, imageInfo)]

\* the archive deleteCloudAsset serializes
movedToDestroyed(arch, imageInfo, publicId) ==
  [arch EXCEPT !.destroyed = Append(@, imageInfo),
               !.uploaded = SelectSeq(@, LAMBDA image : image.publicId # publicId)]

\* refreshArchive with the negated predicate: keeps what is absent from uploaded
newDestroyedInverted(uploaded, destroyed) ==
  SelectSeq(destroyed, LAMBDA image : ~hasPublicId(uploaded, image.publicId))

RECURSIVE spliced(_, _)
spliced(uploaded, destroyed) ==
  IF destroyed = <<>> THEN <<>>
  ELSE IF hasPublicId(uploaded, Head(destroyed).publicId)
       THEN <<Head(destroyed)>> \o spliced(uploaded, Tail(destroyed))
       ELSE IF Len(destroyed) = 1 THEN <<>>
            ELSE <<destroyed[2]>> \o spliced(uploaded, SubSeq(destroyed, 3, Len(destroyed)))

\* refreshArchive pruning with splice inside a forward loop: the entry
\* after a removed one is not examined
newDestroyedSpliced(uploaded, destroyed) == spliced(uploaded, destroyed)

\* newDestroyed of refreshArchive
newDestroyed(uploaded, destroyed) ==
  SelectSeq(destroyed, LAMBDA image : hasPublicId(uploaded, image.publicId))

\* the object refreshArchive serializes: exactly the keys uploaded and destroyed
refreshed(arch) ==
  [uploaded |-> arch.uploaded,
   destroyed |-> newDestroyed(arch.uploaded, arch.destroyed),
   hasDestroyed |-> TRUE]

\* what cloudinary.api.resources may return for a store holding `store`
resources(store) ==
  IF Cardinality(store) <= max_results THEN {store}
  ELSE { S \in SUBSET store : Cardinality(S) = max_results }

\* getCloudAssets: the publicIds of the listed assets outside samples/
getCloudAssets(listed) ==
  { publicId \in listed : ~includes(publicId, <<"samples", "/">>) }

(* ------------------------------- state ------------------------------- *)

VARIABLES
  files,       \* the paths getFilePaths finds under uploadDir
  archive,     \* content of ./uploaded.json
  cloud,       \* publicIds of the assets the Cloudinary store holds
  backup,      \* backup/<date>.json per date: <<>> (no file) or <<archive>>
  listing,     \* archive/<date>.json per date: <<>> (no file) or <<records>>
  today,       \* the date getDateString returns
  mode,        \* branch of main that is running: "idle", "all", "delete", "refresh"
  exit,        \* how the last invocation ended: "none", "ok", "rejected", "interrupted"
  pc,          \* position of main inside the delete and refresh branches
  tasks,       \* upload-all: one uploadImage call per path of uploadDirFilePaths
  rejected,    \* upload-all: Promise.all has rejected
  public_ids,  \* delete-all: the identities read at the start of the run
  idx,         \* delete-all: index into public_ids of the current iteration
  result,      \* deleteCloudAsset: "ok" once uploader.destroy has returned
  imageInfo,   \* deleteCloudAsset: <<>> or <<record>> found by getImageInfo
  local,       \* the archive object loaded by deleteCloudAsset / refreshArchive
  outcomes,    \* delete-all: per finished iteration "ok" (returned result) or "error" (caught)
  refreshes,   \* refreshArchive writes since the last write by upload-all or delete-all
  runs,        \* number of invocations started so far
  removals,    \* number of assets removed from the store out-of-band so far
  stranded,    \* publicIds uploaded by a run that was killed before their record was written
  posts,       \* the files of postDir, each with its name and its lines
  dirs,        \* the directories that fs.mkdir has made under uploadDir
  dateComponentsList,  \* genDateDirs: the dates extracted so far
  template,    \* whether ./docs/template.md exists
  docs,        \* docs/target/<name>-doc.md: the files and what was written to them
  html         \* html/target/<name>.html: the files and the identity each shows

vars == <<files, archive, cloud, backup, listing, today, mode, exit, pc, tasks, rejected,
          public_ids, idx, result, imageInfo, local, outcomes, refreshes, runs,
          removals, stranded, posts, dirs, dateComponentsList, template, docs, html>>

deleteVars == <<public_ids, idx, result, imageInfo, outcomes>>
fileVars == <<backup, listing, today>>
siteVars == <<posts, dirs, dateComponentsList, template, docs, html>>

Days == 1..MaxDay

emptyArchive == [uploaded |-> <<>>, destroyed |-> <<>>, hasDestroyed |-> TRUE]

\* path.dirname: what precedes the last separator
dirname(p) ==
  LET seps == { i \in 1..Len(p) : p[i] = "/" }
  IN  SubSeq(p, 1, (CHOOSE i \in seps : \A j \in seps : j <= i) - 1)

\* a directory below uploadDir together with the directories between them
withParents(dir) ==
  { SubSeq(dir, 1, i - 1) :
      i \in { j \in (Len(uploadDir) + 2)..(Len(dir) + 1) : j = Len(dir) + 1 \/ dir[j] = "/" } }

\* the directories that hold the paths of a listing
dirsOf(filePaths) ==
  UNION { withParents(dirname(filePaths[i])) : i \in 1..Len(filePaths) }

\* the directories that exist under uploadDir
directories == dirs \cup dirsOf(files)

\* before the first invocation: no backup, no listing, no documentation
InitCommon ==
  /\ cloud = {}
  /\ dirs = {}
  /\ stranded = {}
  /\ removals = 0
  /\ dateComponentsList = <<>>
  /\ docs = <<>>
  /\ html = <<>>
  /\ backup = [d \in Days |-> <<>>]
  /\ listing = [d \in Days |-> <<>>]
  /\ today = 1
  /\ mode = "idle"
  /\ exit = "none"
  /\ pc = "none"
  /\ tasks = <<>>
  /\ rejected = FALSE
  /\ public_ids = <<>>
  /\ idx = 0
  /\ result = "none"
  /\ imageInfo = <<>>
  /\ local = <<>>
  /\ outcomes = <<>>
  /\ refreshes = 0
  /\ runs = 0

Init ==
  /\ files \in UploadDirs
  /\ archive = emptyArchive
  /\ posts = <<>>
  /\ template = TRUE
  /\ InitCommon

\* main is entered with one of the mode flags
started(branch) ==
  /\ mode = "idle"
  /\ runs < MaxRuns
  /\ runs' = runs + 1
  /\ mode' = branch
  /\ exit' = "none"

\* the locals of a branch that has ended
ended(how) ==
  /\ mode' = "idle"
  /\ exit' = how
  /\ runs' = runs
  /\ pc' = "none"
  /\ tasks' = <<>>
  /\ rejected' = FALSE
  /\ local' = <<>>
  /\ result' = "none"
  /\ imageInfo' = <<>>
  /\ public_ids' = <<>>
  /\ idx' = 0
  /\ outcomes' = <<>>

(* ------------------------ upload-all (--all) ------------------------- *)

uploadDirFilePaths == trimFilePaths(files)

\* main: getFilePaths, trimFilePaths, and map starts every uploadImage,
\* each running up to its first await (file.exists())
StartUploadAll ==
  /\ started("all")
  /\ tasks' = [i \in 1..Len(uploadDirFilePaths) |-> [pc |-> "exists", archive |-> <<>>]]
  /\ rejected' = FALSE
  /\ UNCHANGED <<files, archive, cloud, fileVars, pc, deleteVars, local, refreshes, siteVars,
                 stranded, removals>>

taskStep(i, at) ==
  /\ mode = "all"
  /\ i \in 1..Len(tasks)
  /\ tasks[i].pc = at

\* uploadImage without the return for a type other than image
TaskFileTypeUnchecked(i) ==
  /\ taskStep(i, "exists")
  /\ tasks' = [tasks EXCEPT ![i].pc = "list"]
  /\ UNCHANGED <<files, archive, cloud, fileVars, mode, exit, pc, rejected, deleteVars, local,
                 refreshes, runs, siteVars, stranded, removals>>

\* uploadImage: after file.exists(), return undefined unless the type is image
TaskFileType(i) ==
  /\ taskStep(i, "exists")
  /\ tasks' = [tasks EXCEPT ![i].pc =
                 IF primaryType(uploadDirFilePaths[i]) # "image" THEN "skipped" ELSE "list"]
  /\ UNCHANGED <<files, archive, cloud, fileVars, mode, exit, pc, rejected, deleteVars, local,
                 refreshes, runs, siteVars, stranded, removals>>

\* uploadImage: publicIdExists resolves; return undefined if the id is listed
TaskPublicIdExists(i) ==
  /\ taskStep(i, "list")
  /\ \E listed \in resources(cloud) :
       LET exists == generatePublicId(uploadDirFilePaths[i]) \in getCloudAssets(listed)
       IN  tasks' = [tasks EXCEPT ![i].pc = IF exists THEN "skipped" ELSE "upload"]
  /\ UNCHANGED <<files, archive, cloud, fileVars, mode, exit, pc, rejected, deleteVars, local,
                 refreshes, runs, siteVars, stranded, removals>>

\* uploadImage: getCloudAssets throws, publicIdExists rethrows, the task rejects
TaskPublicIdExistsFails(i) ==
  /\ taskStep(i, "list")
  /\ tasks' = [tasks EXCEPT ![i].pc = "failed"]
  /\ rejected' = TRUE
  /\ UNCHANGED <<files, archive, cloud, fileVars, mode, exit, pc, deleteVars, local, refreshes,
                 runs, siteVars, stranded, removals>>

\* uploadImage: uploader.upload succeeds, the asset is stored under publicId
TaskUpload(i) ==
  /\ taskStep(i, "upload")
  /\ cloud' = cloud \cup {generatePublicId(uploadDirFilePaths[i])}
  /\ tasks' = [tasks EXCEPT ![i].pc = "load"]
  /\ UNCHANGED <<files, archive, fileVars, mode, exit, pc, rejected, deleteVars, local, refreshes,
                 runs, siteVars, stranded, removals>>

\* uploadImage: uploader.upload throws, the catch block rethrows
TaskUploadFails(i) ==
  /\ taskStep(i, "upload")
  /\ tasks' = [tasks EXCEPT ![i].pc = "failed"]
  /\ rejected' = TRUE
  /\ UNCHANGED <<files, archive, cloud, fileVars, mode, exit, pc, deleteVars, local, refreshes,
                 runs, siteVars, stranded, removals>>

\* pushUploaded: loadJsonArchive resolves
TaskPushLoad(i) ==
  /\ taskStep(i, "load")
  /\ tasks' = [tasks EXCEPT ![i].pc = "write", ![i].archive = <<archive>>]
  /\ UNCHANGED <<files, archive, cloud, fileVars, mode, exit, pc, rejected, deleteVars, local,
                 refreshes, runs, siteVars, stranded, removals>>

\* pushUploaded: push on the loaded object, Bun.write of the whole object
TaskPushWrite(i) ==
  /\ taskStep(i, "write")
  /\ archive' = pushed(tasks[i].archive[1], imageInfoOf(uploadDirFilePaths[i]))
  /\ tasks' = [tasks EXCEPT ![i].pc = "done", ![i].archive = <<>>]
  /\ refreshes' = 0
  /\ UNCHANGED <<files, cloud, fileVars, mode, exit, pc, rejected, deleteVars, local, runs,
                 siteVars, stranded, removals>>

\* the values Promise.all resolves to, with undefined filtered out
uploadResults ==
  LET done == SelectSeq([i \in 1..Len(tasks) |-> i], LAMBDA i : tasks[i].pc = "done")
  IN  [k \in 1..Len(done) |-> imageInfoOf(uploadDirFilePaths[done[k]])]

settled(t) == t.pc \in {"skipped", "done", "failed"}

\* main: Promise.all resolves, saveJsonObject writes archive/<date>.json
SaveJsonObject ==
  /\ mode = "all"
  /\ ~rejected
  /\ \A i \in 1..Len(tasks) : tasks[i].pc \in {"skipped", "done"}
  /\ listing' = [listing EXCEPT ![today] = <<uploadResults>>]
  /\ ended("ok")
  /\ UNCHANGED <<files, archive, cloud, backup, today, refreshes, siteVars, stranded, removals>>

\* main: Promise.all has rejected, the async main rejects unhandled and the
\* process ends, at once or after the other tasks have run on
ExitRejected ==
  /\ mode = "all"
  /\ rejected
  /\ ended("rejected")
  /\ UNCHANGED <<files, archive, cloud, fileVars, refreshes, siteVars, stranded, removals>>

(* ----------------------- delete-all (--delete) ----------------------- *)

publicIdsOf(images) == [i \in 1..Len(images) |-> images[i].publicId]

\* main: loadJsonArchive, public_ids, and the loop reaches Bun.sleep
StartDeleteAll ==
  /\ started("delete")
  /\ public_ids' = publicIdsOf(archive.uploaded)
  /\ idx' = 1
  /\ pc' = "sleep"
  /\ outcomes' = <<>>
  /\ UNCHANGED <<files, archive, cloud, fileVars, tasks, rejected, result, imageInfo, local,
                 refreshes, siteVars, stranded, removals>>

deleteStep(at) ==
  /\ mode = "delete"
  /\ idx <= Len(public_ids)
  /\ pc = at

\* the end of one loop iteration: deleteCloudAsset has returned
iterationEnds(outcome) ==
  /\ outcomes' = Append(outcomes, outcome)
  /\ idx' = idx + 1
  /\ pc' = "sleep"
  /\ result' = "none"
  /\ imageInfo' = <<>>
  /\ local' = <<>>

\* main: Bun.sleep(200) resolves, deleteCloudAsset starts and calls destroy
DeleteSleep ==
  /\ deleteStep("sleep")
  /\ pc' = "destroy"
  /\ UNCHANGED <<files, archive, cloud, fileVars, mode, exit, tasks, rejected, deleteVars, local,
                 refreshes, runs, siteVars, stranded, removals>>

\* deleteCloudAsset: uploader.destroy returns (also for an asset that is not there)
DeleteDestroy ==
  /\ deleteStep("destroy")
  /\ cloud' = cloud \ {public_ids[idx]}
  /\ result' = "ok"
  /\ pc' = "getImageInfo"
  /\ UNCHANGED <<files, archive, fileVars, mode, exit, tasks, rejected, public_ids, idx, imageInfo,
                 outcomes, local, refreshes,
                 runs, siteVars, stranded, removals>>

\* deleteCloudAsset rethrowing from its catch block as uploadImage does
DeleteDestroyRethrows ==
  /\ deleteStep("destroy")
  /\ ended("rejected")
  /\ UNCHANGED <<files, archive, cloud, fileVars, refreshes, siteVars, stranded, removals>>

\* deleteCloudAsset: uploader.destroy throws, the catch block logs and returns
DeleteDestroyFails ==
  /\ deleteStep("destroy")
  /\ iterationEnds("error")
  /\ UNCHANGED <<files, archive, cloud, fileVars, mode, exit, tasks, rejected, public_ids,
                 refreshes, runs, siteVars, stranded, removals>>

\* deleteCloudAsset: getImageInfo resolves; 'Image info not found' is caught
DeleteGetImageInfo ==
  /\ deleteStep("getImageInfo")
  /\ IF getImageInfo(archive, public_ids[idx]) = <<>>
     THEN iterationEnds("error")
     ELSE /\ imageInfo' = getImageInfo(archive, public_ids[idx])
          /\ pc' = "load"
          /\ UNCHANGED <<files, idx, result, outcomes, local, siteVars, stranded, removals>>
  /\ UNCHANGED <<files, archive, cloud, fileVars, mode, exit, tasks, rejected, public_ids,
                 refreshes, runs, siteVars, stranded, removals>>

\* deleteCloudAsset: loadJsonArchive resolves; the push on a missing
\* destroyed array is a TypeError that the catch block logs
DeleteLoad ==
  /\ deleteStep("load")
  /\ IF ~archive.hasDestroyed
     THEN iterationEnds("error")
     ELSE /\ local' = <<movedToDestroyed(archive, imageInfo[1], public_ids[idx])>>
          /\ pc' = "write"
          /\ UNCHANGED <<files, idx, result, imageInfo, outcomes, siteVars, stranded, removals>>
  /\ UNCHANGED <<files, archive, cloud, fileVars, mode, exit, tasks, rejected, public_ids,
                 refreshes, runs, siteVars, stranded, removals>>

\* deleteCloudAsset keeping the move in memory, the write left to the end of the run
DeleteWriteDeferred ==
  /\ deleteStep("write")
  /\ iterationEnds("ok")
  /\ UNCHANGED <<files, archive, cloud, fileVars, mode, exit, tasks, rejected, public_ids,
                 refreshes, runs, siteVars, stranded, removals>>

\* deleteCloudAsset: Bun.write of the changed object resolves, return result
DeleteWrite ==
  /\ deleteStep("write")
  /\ archive' = local[1]
  /\ refreshes' = 0
  /\ iterationEnds("ok")
  /\ UNCHANGED <<files, cloud, fileVars, mode, exit, tasks, rejected, public_ids, runs, siteVars,
                 stranded, removals>>

\* main: the loop is over
DeleteAllReturns ==
  /\ mode = "delete"
  /\ idx > Len(public_ids)
  /\ ended("ok")
  /\ UNCHANGED <<files, archive, cloud, fileVars, refreshes, siteVars, stranded, removals>>

(* ------------------------ refresh (--refresh) ------------------------ *)

\* main: refreshArchive starts and awaits getFilePaths
StartRefresh ==
  /\ started("refresh")
  /\ pc' = "getFilePaths"
  /\ UNCHANGED <<files, archive, cloud, fileVars, tasks, rejected, deleteVars, local, refreshes,
                 siteVars, stranded, removals>>

refreshStep(at) ==
  /\ mode = "refresh"
  /\ pc = at

\* refreshArchive: getFilePaths resolves, loadJsonArchive is awaited
RefreshGetFilePaths ==
  /\ refreshStep("getFilePaths")
  /\ pc' = "load"
  /\ UNCHANGED <<files, archive, cloud, fileVars, mode, exit, tasks, rejected, deleteVars, local,
                 refreshes, runs, siteVars, stranded, removals>>

\* refreshArchive: nowArchive is loaded, the backup write is awaited
RefreshLoad ==
  /\ refreshStep("load")
  /\ local' = <<archive>>
  /\ pc' = "backup"
  /\ UNCHANGED <<files, archive, cloud, fileVars, mode, exit, tasks, rejected, deleteVars,
                 refreshes, runs, siteVars, stranded, removals>>

\* refreshArchive: Bun.write of backup/<date>.json resolves
RefreshBackup ==
  /\ refreshStep("backup")
  /\ backup' = [backup EXCEPT ![today] = local]
  /\ pc' = "write"
  /\ UNCHANGED <<files, archive, cloud, listing, today, mode, exit, tasks, rejected, deleteVars,
                 local, refreshes, runs, siteVars, stranded, removals>>

\* refreshArchive: Bun.write of the pruned archive resolves; the filter on a
\* missing destroyed array is a TypeError nobody catches
RefreshWrite ==
  /\ refreshStep("write")
  /\ IF ~local[1].hasDestroyed
     THEN /\ ended("rejected")
          /\ UNCHANGED <<files, archive, refreshes, siteVars, stranded, removals>>
     ELSE /\ archive' = refreshed(local[1])
          /\ refreshes' = refreshes + 1
          /\ ended("ok")
  /\ UNCHANGED <<files, cloud, fileVars, siteVars, stranded, removals>>

(* --------------------- emit-docs (--original) ---------------------- *)

Digits == {"0", "1", "2", "3", "4", "5", "6", "7", "8", "9"}

allDigits(s) == \A i \in 1..Len(s) : s[i] \in Digits

\* the run of one or two digits at position i that a "/" follows; 0 if none
digitRun(s, i) ==
  IF Len(s) >= i + 1 /\ s[i] \in Digits /\ s[i + 1] = "/" THEN 1
  ELSE IF Len(s) >= i + 2 /\ s[i] \in Digits /\ s[i + 1] \in Digits /\ s[i + 2] = "/" THEN 2
  ELSE 0

\* publicId.match(/^(\d{4})\/(\d{1,2})\/(\d{1,2})\/(.+)$/): <<>> for null
matchPublicId(publicId) ==
  IF ~(Len(publicId) >= 5 /\ allDigits(SubSeq(publicId, 1, 4)) /\ publicId[5] = "/") THEN <<>>
  ELSE LET ml == digitRun(publicId, 6)
           dl == digitRun(publicId, 7 + ml)
           rest == 8 + ml + dl
       IN  IF ml = 0 \/ dl = 0 \/ Len(publicId) < rest THEN <<>>
           ELSE << [year |-> SubSeq(publicId, 1, 4),
                    month |-> SubSeq(publicId, 6, 5 + ml),
                    day |-> SubSeq(publicId, 7 + ml, 6 + ml + dl),
                    filename |-> SubSeq(publicId, rest, Len(publicId))] >>

\* formatPublicId for a publicId that matches: `${filename}-${year}${month}${day}`
formatPublicId(publicId) ==
  LET match == matchPublicId(publicId)[1]
  IN  match.filename \o <<"-">> \o match.year \o match.month \o match.day

\* a file of a target directory, under the name that formatPublicId gives
written(target, name, content) ==
  [n \in DOMAIN target \cup {name} |-> IF n = name THEN content ELSE target[n]]

\* main: loadJsonArchive, public_ids, and the first genOriginUrl awaits getImageInfo
StartOriginal ==
  /\ started("original")
  /\ public_ids' = publicIdsOf(archive.uploaded)
  /\ idx' = 1
  /\ pc' = "getImageInfo"
  /\ outcomes' = <<>>
  /\ UNCHANGED <<files, archive, cloud, fileVars, tasks, rejected, result, imageInfo, local,
                 refreshes, siteVars, stranded, removals>>

originalStep(at) ==
  /\ mode = "original"
  /\ idx <= Len(public_ids)
  /\ pc = at

\* the end of one loop iteration: genOriginUrl has returned
genOriginUrlReturns(outcome) ==
  /\ outcomes' = Append(outcomes, outcome)
  /\ idx' = idx + 1
  /\ pc' = "getImageInfo"
  /\ result' = "none"
  /\ imageInfo' = <<>>
  /\ local' = <<>>

\* genOriginUrl rethrowing from its catch block
OriginalGetImageInfoRethrows ==
  /\ originalStep("getImageInfo")
  /\ IF matchPublicId(public_ids[idx]) = <<>>
     THEN /\ ended("rejected")
          /\ UNCHANGED <<dateComponentsList>>
     ELSE /\ imageInfo' = getImageInfo(archive, public_ids[idx])
          /\ pc' = "checkDocMarkdown"
          /\ UNCHANGED <<mode, exit, runs, tasks, rejected, public_ids, idx, result, outcomes,
                         local, dateComponentsList>>
  /\ UNCHANGED <<files, archive, cloud, fileVars, refreshes, posts, dirs, template, docs, html,
                 stranded, removals>>

\* genOriginUrl: getImageInfo resolves; formatPublicId throws 'Invalid
\* publicId format' for an identity without the dated shape, which is caught
OriginalGetImageInfo ==
  /\ originalStep("getImageInfo")
  /\ IF matchPublicId(public_ids[idx]) = <<>>
     THEN genOriginUrlReturns("error")
     ELSE /\ imageInfo' = getImageInfo(archive, public_ids[idx])
          /\ pc' = "checkDocMarkdown"
          /\ UNCHANGED <<idx, result, outcomes, local>>
  /\ UNCHANGED <<files, archive, cloud, fileVars, mode, exit, tasks, rejected, public_ids,
                 refreshes, runs, siteVars, stranded, removals>>

\* checkDocMarkdown: file.exists, and for a new file getImageInfo and
\* loadTemplate; a missing record or a missing template is rethrown and caught
OriginalCheckDocMarkdown ==
  /\ originalStep("checkDocMarkdown")
  /\ IF formatPublicId(public_ids[idx]) \in DOMAIN docs
     THEN /\ pc' = "pushContent"
          /\ UNCHANGED <<idx, result, imageInfo, outcomes, local>>
     ELSE IF getImageInfo(archive, public_ids[idx]) = <<>> \/ ~template
     THEN genOriginUrlReturns("error")
     ELSE /\ pc' = "initDoc"
          /\ UNCHANGED <<idx, result, imageInfo, outcomes, local>>
  /\ UNCHANGED <<files, archive, cloud, fileVars, mode, exit, tasks, rejected, public_ids,
                 refreshes, runs, siteVars, stranded, removals>>

\* checkDocMarkdown: Bun.write of the template with the record substituted
OriginalInitDoc ==
  /\ originalStep("initDoc")
  /\ docs' = written(docs, formatPublicId(public_ids[idx]),
                     [imageInfo |-> getImageInfo(archive, public_ids[idx])[1], sections |-> <<>>])
  /\ pc' = "pushContent"
  /\ UNCHANGED <<files, archive, cloud, fileVars, mode, exit, tasks, rejected, deleteVars, local,
                 refreshes, runs, posts, dirs, dateComponentsList, template, html, stranded,
                 removals>>

\* a Bun.write of genOriginUrl throws: rethrown by checkDocMarkdown or
\* logged by pushContentToDocs, and the iteration ends
OriginalWriteFails ==
  /\ mode = "original"
  /\ idx <= Len(public_ids)
  /\ pc \in {"initDoc", "writeDocs", "writeHtml"}
  /\ genOriginUrlReturns("error")
  /\ UNCHANGED <<files, archive, cloud, fileVars, mode, exit, tasks, rejected, public_ids,
                 refreshes, runs, siteVars, stranded, removals>>

\* pushContentToDocs: getImageInfo and file.text resolve; 'Image info not
\* found' is logged by its own catch block
OriginalPushContent ==
  /\ originalStep("pushContent")
  /\ IF getImageInfo(archive, public_ids[idx]) = <<>>
     THEN genOriginUrlReturns("error")
     ELSE /\ pc' = "writeDocs"
          /\ UNCHANGED <<idx, result, imageInfo, outcomes, local>>
  /\ UNCHANGED <<files, archive, cloud, fileVars, mode, exit, tasks, rejected, public_ids,
                 refreshes, runs, siteVars, stranded, removals>>

\* pushContentToDocs: Bun.write of the file content with the dated section appended
OriginalWriteDocs ==
  /\ originalStep("writeDocs")
  /\ docs' = [docs EXCEPT ![formatPublicId(public_ids[idx])].sections =
                Append(@, [publicId |-> public_ids[idx], date |-> today])]
  /\ pc' = "writeHtml"
  /\ UNCHANGED <<files, archive, cloud, fileVars, mode, exit, tasks, rejected, deleteVars, local,
                 refreshes, runs, posts, dirs, dateComponentsList, template, html, stranded,
                 removals>>

\* pushContentToDocs: Bun.write of the html file, and genOriginUrl returns
OriginalWriteHtml ==
  /\ originalStep("writeHtml")
  /\ html' = written(html, formatPublicId(public_ids[idx]), public_ids[idx])
  /\ genOriginUrlReturns("ok")
  /\ UNCHANGED <<files, archive, cloud, fileVars, mode, exit, tasks, rejected, public_ids,
                 refreshes, runs, posts, dirs, dateComponentsList, template, docs, stranded,
                 removals>>

\* main: the loop is over
OriginalReturns ==
  /\ mode = "original"
  /\ idx > Len(public_ids)
  /\ ended("ok")
  /\ UNCHANGED <<files, archive, cloud, fileVars, refreshes, siteVars, stranded, removals>>

(* ------------------------ gen-skeleton (--gen) ------------------------ *)

\* the match of /date:\s*(\d{4})-(\d{2})-(\d{2})/ that starts at token i
dateMatchAt(inputString, i) ==
  LET spaces == { n \in 0..(Len(inputString) - i) :
                    \A k \in 1..n : inputString[i + k] = " " }
      n == CHOOSE m \in spaces : \A o \in spaces : o <= m
      at == i + n
  IN  IF /\ inputString[i] = "date:"
         /\ Len(inputString) >= at + 10
         /\ allDigits(SubSeq(inputString, at + 1, at + 4))
         /\ inputString[at + 5] = "-"
         /\ allDigits(SubSeq(inputString, at + 6, at + 7))
         /\ inputString[at + 8] = "-"
         /\ allDigits(SubSeq(inputString, at + 9, at + 10))
      THEN << [year |-> SubSeq(inputString, at + 1, at + 4),
               month |-> SubSeq(inputString, at + 6, at + 7),
               day |-> SubSeq(inputString, at + 9, at + 10)] >>
      ELSE <<>>

\* the groups of the first line that matches, as captured; <<>> for undefined
extractDateComponents(inputStrings) ==
  LET hits == UNION { { <<l, i>> : i \in { k \in 1..Len(inputStrings[l]) :
                                              dateMatchAt(inputStrings[l], k) # <<>> } } :
                      l \in 1..Len(inputStrings) }
  IN  IF hits = {} THEN <<>>
      ELSE LET first == CHOOSE h \in hits :
                          \A g \in hits : h[1] < g[1] \/ (h[1] = g[1] /\ h[2] <= g[2])
           IN  dateMatchAt(inputStrings[first[1]], first[2])

DigitValue ==
  [d \in Digits |-> CHOOSE v \in 0..9 :
     d = <<"0", "1", "2", "3", "4", "5", "6", "7", "8", "9">>[v + 1]]

\* parseInt of a text of digits
RECURSIVE parseInt(_)
parseInt(s) ==
  IF s = <<>> THEN 0 ELSE 10 * parseInt(SubSeq(s, 1, Len(s) - 1)) + DigitValue[s[Len(s)]]

dateOf(dateComponents) ==
  parseInt(dateComponents.year \o dateComponents.month \o dateComponents.day)

\* Array.prototype.sort with the comparator aDate - bDate (a stable sort)
RECURSIVE sortedByDate(_)
sortedByDate(list) ==
  IF list = <<>> THEN <<>>
  ELSE LET least == CHOOSE i \in 1..Len(list) :
                      /\ \A j \in 1..Len(list) : dateOf(list[i]) <= dateOf(list[j])
                      /\ \A j \in 1..(i - 1) : dateOf(list[j]) # dateOf(list[i])
           others == SubSeq(list, 1, least - 1) \o SubSeq(list, least + 1, Len(list))
       IN  <<list[least]>> \o sortedByDate(others)

\* a Set in insertion order: the first occurrence of every element
RECURSIVE insertionOrder(_)
insertionOrder(list) ==
  IF list = <<>> THEN <<>>
  ELSE LET front == insertionOrder(SubSeq(list, 1, Len(list) - 1))
       IN  IF \E i \in 1..Len(front) : front[i] = list[Len(list)] THEN front
           ELSE Append(front, list[Len(list)])

\* path.join(uploadDir, year, month, day)
dateDirPath(dateComponents) ==
  uploadDir \o <<"/">> \o dateComponents.year \o <<"/">> \o dateComponents.month
            \o <<"/">> \o dateComponents.day

\* the Set dateDirs that genDateDirs builds from the sorted list
dateDirs(list) ==
  LET dateComponentsAry == sortedByDate(list)
  IN  insertionOrder([i \in 1..Len(dateComponentsAry) |-> dateDirPath(dateComponentsAry[i])])

\* the Set gitkeeps
gitkeeps(list) ==
  [i \in 1..Len(dateDirs(list)) |-> dateDirs(list)[i] \o <<"/", ".gitkeep">>]

isMdx(file) == endsWith(file.name, <<".mdx">>)

\* the next entry of postDir at or after i that is read, Len(posts) + 1 if none
nextMdx(i) ==
  LET rest == { j \in i..Len(posts) : isMdx(posts[j]) }
  IN  IF rest = {} THEN Len(posts) + 1 ELSE Min(rest)

\* main: genDateDirs awaits fs.readdir
StartGen ==
  /\ started("gen")
  /\ pc' = "readdir"
  /\ idx' = 0
  /\ dateComponentsList' = <<>>
  /\ UNCHANGED <<files, archive, cloud, fileVars, tasks, rejected, public_ids, result, imageInfo,
                 outcomes, local, refreshes, posts, dirs, template, docs, html, stranded,
                 removals>>

genStep(at) ==
  /\ mode = "gen"
  /\ pc = at

\* where genDateDirs waits next once the list holds what the files up to
\* posts[i - 1] gave: the next readFile, the first mkdir, or its return
genAwaits(list, i) ==
  IF nextMdx(i) <= Len(posts)
  THEN pc' = "readFile" /\ idx' = nextMdx(i)
  ELSE IF dateDirs(list) # <<>>
  THEN pc' = "mkdir" /\ idx' = 1
  ELSE pc' = "complete" /\ idx' = 0

\* fs.readdir resolves
GenReaddir ==
  /\ genStep("readdir")
  /\ genAwaits(dateComponentsList, 1)
  /\ UNCHANGED <<files, archive, cloud, fileVars, mode, exit, tasks, rejected, public_ids, result,
                 imageInfo, outcomes, local, refreshes, runs, siteVars, stranded, removals>>

\* fs.readFile resolves: split, extractDateComponents, push
GenReadFile ==
  /\ genStep("readFile")
  /\ LET dateComponents == extractDateComponents(posts[idx].lines)
     IN  /\ dateComponentsList' = dateComponentsList \o dateComponents
         /\ genAwaits(dateComponentsList \o dateComponents, idx + 1)
  /\ UNCHANGED <<files, archive, cloud, fileVars, mode, exit, tasks, rejected, public_ids, result,
                 imageInfo, outcomes, local, refreshes, runs, posts, dirs, template, docs, html,
                 stranded, removals>>

\* fs.mkdir(dir, { recursive: true }) resolves, also for a directory that exists
GenMkdir ==
  /\ genStep("mkdir")
  /\ dirs' = dirs \cup withParents(dateDirs(dateComponentsList)[idx])
  /\ IF idx < Len(dateDirs(dateComponentsList))
     THEN pc' = pc /\ idx' = idx + 1
     ELSE pc' = "writeFile" /\ idx' = 1
  /\ UNCHANGED <<files, archive, cloud, fileVars, mode, exit, tasks, rejected, public_ids, result,
                 imageInfo, outcomes, local, refreshes, runs, posts, dateComponentsList, template,
                 docs, html, stranded, removals>>

\* fs.writeFile(gitkeep, '') resolves: the file is created or emptied
GenWriteFile ==
  /\ genStep("writeFile")
  /\ LET gitkeep == gitkeeps(dateComponentsList)[idx]
     IN  files' = IF \E k \in 1..Len(files) : files[k] = gitkeep THEN files
                  ELSE Append(files, gitkeep)
  /\ IF idx < Len(gitkeeps(dateComponentsList))
     THEN pc' = pc /\ idx' = idx + 1
     ELSE pc' = "complete" /\ idx' = 0
  /\ UNCHANGED <<archive, cloud, fileVars, mode, exit, tasks, rejected, public_ids, result,
                 imageInfo, outcomes, local, refreshes, runs, siteVars, stranded, removals>>

\* main: genDateDirs has returned 'complete', which is logged
GenReturns ==
  /\ genStep("complete")
  /\ ended("ok")
  /\ dateComponentsList' = <<>>
  /\ UNCHANGED <<files, archive, cloud, fileVars, refreshes, posts, dirs, template, docs, html,
                 stranded, removals>>

(* ---------------------------- environment ---------------------------- *)

\* the calendar date advances
NextDay ==
  /\ today < MaxDay
  /\ today' = today + 1
  /\ UNCHANGED <<files, archive, cloud, backup, listing, mode, exit, pc, tasks, rejected,
                 deleteVars, local, refreshes, runs, siteVars, stranded, removals>>

\* the publicIds whose upload has returned while pushUploaded has not written
inFlightUploads ==
  { generatePublicId(uploadDirFilePaths[i]) :
      i \in { j \in 1..Len(tasks) : tasks[j].pc \in {"load", "write"} } }

\* the process is killed at a suspension point
killed ==
  /\ mode # "idle"
  /\ ended("interrupted")
  /\ dateComponentsList' = <<>>
  /\ UNCHANGED <<files, archive, cloud, fileVars, refreshes, posts, dirs, template, docs, html,
                 removals>>

Interrupt ==
  /\ killed
  /\ UNCHANGED stranded

\* the same, with what the killed run leaves behind in the store noted
InterruptStranding ==
  /\ killed
  /\ stranded' = stranded \cup inFlightUploads

(* --------------------------- specification --------------------------- *)

steps ==
  \/ StartUploadAll
  \/ \E i \in 1..Len(tasks) : TaskFileType(i)
  \/ \E i \in 1..Len(tasks) : TaskPublicIdExists(i)
  \/ \E i \in 1..Len(tasks) : TaskPublicIdExistsFails(i)
  \/ \E i \in 1..Len(tasks) : TaskUpload(i)
  \/ \E i \in 1..Len(tasks) : TaskUploadFails(i)
  \/ \E i \in 1..Len(tasks) : TaskPushLoad(i)
  \/ \E i \in 1..Len(tasks) : TaskPushWrite(i)
  \/ SaveJsonObject
  \/ ExitRejected
  \/ StartDeleteAll
  \/ DeleteSleep
  \/ DeleteDestroy
  \/ DeleteDestroyFails
  \/ DeleteGetImageInfo
  \/ DeleteLoad
  \/ DeleteWrite
  \/ DeleteAllReturns
  \/ StartRefresh
  \/ RefreshGetFilePaths
  \/ RefreshLoad
  \/ RefreshBackup
  \/ RefreshWrite
  \/ NextDay

Next == steps \/ Interrupt

Spec == Init /\ [][Next]_vars

NextStranding == steps \/ InterruptStranding

\* the three branches, with the uploads of killed runs noted
SpecStranding == Init /\ [][NextStranding]_vars

\* an asset is removed from the store by other means than this tool
RemoteRemoved ==
  /\ removals < MaxRemoved
  /\ removals' = removals + 1
  /\ \E publicId \in cloud : cloud' = cloud \ {publicId}
  /\ UNCHANGED <<files, archive, fileVars, mode, exit, pc, tasks, rejected, deleteVars, local,
                 refreshes, runs, siteVars, stranded>>

NextRemote == Next \/ RemoteRemoved

\* the tool next to a store that is also changed out-of-band
SpecRemote == Init /\ [][NextRemote]_vars

\* ./uploaded.json as written before the destroyed array was introduced
legacyArchive == [uploaded |-> <<>>, destroyed |-> <<>>, hasDestroyed |-> FALSE]

InitLegacy ==
  /\ files \in UploadDirs
  /\ archive \in {emptyArchive, legacyArchive}
  /\ posts = <<>>
  /\ template = TRUE
  /\ InitCommon

\* contents of uploadDir with a directory that carries an extension, with an
\* image outside the dated directories, and with two dates of the same digits
DocDirs ==
  { << dated(y2024, <<"1">>, <<"2">>, <<"pics", ".jpg", "/", "cat", ".jpg">>),
       dated(y2024, <<"1">>, <<"2">>, <<"cat", ".jpg">>) >>,
    << uploadDir \o <<"/", "cat", ".jpg">>,
       dated(y2024, <<"1">>, <<"2">>, <<"cat", ".jpg">>) >>,
    << dated(y2024, <<"1">>, <<"1", "2">>, <<"x", ".jpg">>),
       dated(y2024, <<"1", "1">>, <<"2">>, <<"x", ".jpg">>) >> }

InitDocs ==
  /\ files \in DocDirs
  /\ archive = emptyArchive
  /\ posts = <<>>
  /\ template \in BOOLEAN
  /\ InitCommon

NextDocs ==
  \/ StartUploadAll
  \/ \E i \in 1..Len(tasks) : TaskFileType(i)
  \/ \E i \in 1..Len(tasks) : TaskPublicIdExists(i)
  \/ \E i \in 1..Len(tasks) : TaskPublicIdExistsFails(i)
  \/ \E i \in 1..Len(tasks) : TaskUpload(i)
  \/ \E i \in 1..Len(tasks) : TaskUploadFails(i)
  \/ \E i \in 1..Len(tasks) : TaskPushLoad(i)
  \/ \E i \in 1..Len(tasks) : TaskPushWrite(i)
  \/ SaveJsonObject
  \/ ExitRejected
  \/ StartOriginal
  \/ OriginalGetImageInfo
  \/ OriginalCheckDocMarkdown
  \/ OriginalInitDoc
  \/ OriginalWriteFails
  \/ OriginalPushContent
  \/ OriginalWriteDocs
  \/ OriginalWriteHtml
  \/ OriginalReturns
  \/ NextDay
  \/ Interrupt

\* upload-all and emit-docs-for-all over these directories
SpecDocs == InitDocs /\ [][NextDocs]_vars

title == <<"title:", " ", "post">>

\* the line `date: year-month-day`
dateLine(year, month, day) == <<"date:", " ">> \o year \o <<"-">> \o month \o <<"-">> \o day

\* contents of postDir in readdir order: posts of padded dates, two posts of
\* one day, a post whose date is not padded, and a file that is no post
PostDirs ==
  { << [name |-> <<"b", ".mdx">>, lines |-> <<title, dateLine(y2024, <<"0", "5">>, <<"0", "6">>)>>],
       [name |-> <<"a", ".mdx">>, lines |-> <<dateLine(y2024, <<"0", "1">>, <<"0", "2">>), title>>],
       [name |-> <<"notes", ".txt">>, lines |-> <<dateLine(y2024, <<"0", "3">>, <<"0", "4">>)>>] >>,
    << [name |-> <<"c", ".mdx">>, lines |-> <<dateLine(y2024, <<"1", "1">>, <<"1", "2">>)>>],
       [name |-> <<"d", ".mdx">>, lines |-> <<title, dateLine(y2024, <<"5">>, <<"6">>)>>],
       [name |-> <<"e", ".mdx">>, lines |-> <<dateLine(y2024, <<"1", "1">>, <<"1", "2">>)>>],
       [name |-> <<"f", ".mdx">>, lines |-> <<dateLine(y2024, <<"0", "5">>, <<"0", "6">>)>>] >> }

InitGen ==
  /\ files \in UploadDirs
  /\ archive = emptyArchive
  /\ posts \in PostDirs
  /\ template = TRUE
  /\ InitCommon

NextGen ==
  \/ StartGen
  \/ GenReaddir
  \/ GenReadFile
  \/ GenMkdir
  \/ GenWriteFile
  \/ GenReturns
  \/ NextDay
  \/ Interrupt

\* generate-skeleton over these posts
SpecGen == InitGen /\ [][NextGen]_vars

\* the tool started on an archive file of either shape
SpecLegacy == InitLegacy /\ [][Next]_vars

(* ------------------------------ claims ------------------------------ *)

inUploaded(arch, publicId) == hasPublicId(arch.uploaded, publicId)
inDestroyed(arch, publicId) == hasPublicId(arch.destroyed, publicId)
recordIn(images, image) == \E i \in 1..Len(images) : images[i] = image

catId == y2024 \o <<"/", "1", "/", "2", "/", "cat">>
catJpg == [publicId |-> catId, originalFilename |-> <<"cat", ".jpg">>]

\* C1: no two records of the persisted `uploaded` have the same identity.
C1_UploadedUnique ==
  \A i, j \in 1..Len(archive.uploaded) :
    i # j => archive.uploaded[i].publicId # archive.uploaded[j].publicId

\* C2: when every task of an upload-all batch has settled, the persisted
\* `uploaded` holds the record of every task whose upload succeeded.
C2_AppendsSerialized ==
  (mode = "all" /\ \A i \in 1..Len(tasks) : settled(tasks[i]))
    => \A i \in 1..Len(tasks) :
         tasks[i].pc = "done" => recordIn(archive.uploaded, imageInfoOf(uploadDirFilePaths[i]))

\* C3: no identity is in `uploaded` and in `destroyed` at the same time.
C3_PartitionsDisjoint ==
  \A i \in 1..Len(archive.uploaded) : ~inDestroyed(archive, archive.uploaded[i].publicId)

\* C4: a delete-all iteration whose gateway delete returned, for an identity
\* that is in `uploaded`, ends with that identity not found in `uploaded`
\* and the record that lookup found present in `destroyed`.
C4_DeleteMoves ==
  [][ ( /\ mode = "delete"
        /\ idx' = idx + 1
        /\ result = "ok"
        /\ inUploaded(archive, public_ids[idx]) )
      => ( /\ getImageInfo(archive', public_ids[idx]) = <<>>
           /\ recordIn(archive'.destroyed, getImageInfo(archive, public_ids[idx])[1]) ) ]_vars

\* C4 witness: the scenario uploaded=[2024/1/2/cat], destroyed=[] after its delete step
C4_Witness ==
  /\ mode = "delete"
  /\ public_ids = <<catId>>
  /\ outcomes = <<"ok">>
  /\ archive.uploaded = <<>>
  /\ archive.destroyed = <<catJpg>>

\* a gateway delete call that threw: main left "destroy" without a result
destroyFailed ==
  /\ mode = "delete"
  /\ pc = "destroy"
  /\ pc' \notin {"destroy", "getImageInfo"}
  /\ exit' # "interrupted"

\* C5: a failed gateway delete leaves the persisted archive unchanged and
\* moves the loop to the next identity, and a delete-all run that is not
\* interrupted ends only after an iteration for every identity read at its start.
C5_DeleteFailureSkipped ==
  [][ /\ destroyFailed =>
           ( /\ archive' = archive
             /\ mode' = "delete"
             /\ public_ids' = public_ids
             /\ idx' = idx + 1 )
      /\ (mode = "delete" /\ mode' = "idle" /\ exit' # "interrupted") =>
           ( /\ exit' = "ok"
             /\ Len(outcomes) = Len(public_ids) ) ]_vars

\* C5 witness: the first delete failed, its identity stayed in `uploaded`,
\* and the second identity was deleted after it
C5_Witness ==
  /\ mode = "delete"
  /\ Len(public_ids) = 2
  /\ outcomes = <<"error", "ok">>
  /\ inUploaded(archive, public_ids[1])
  /\ ~inDestroyed(archive, public_ids[1])
  /\ inDestroyed(archive, public_ids[2])

\* C6: at every point of a delete-all run, every identity whose iteration
\* returned its result is in the persisted `destroyed` and not in `uploaded`.
C6_PersistedAfterEachMove ==
  mode = "delete" =>
    \A i \in 1..Len(outcomes) :
      outcomes[i] = "ok" => ( /\ inDestroyed(archive, public_ids[i])
                              /\ ~inUploaded(archive, public_ids[i]) )

\* C6 witness: one deletion persisted, the next one in flight between the
\* gateway call and the write
C6_Witness ==
  /\ mode = "delete"
  /\ outcomes = <<"ok">>
  /\ idx = 2
  /\ pc = "write"
  /\ result = "ok"
  /\ inUploaded(archive, public_ids[2])

\* the step in which refreshArchive writes ./uploaded.json
refreshWrites ==
  /\ mode = "refresh"
  /\ pc = "write"
  /\ exit' = "ok"

\* C7: refresh leaves `uploaded` unchanged and keeps, in order, every entry
\* of `destroyed` whose identity is in `uploaded`.
C7_RefreshKeepsReuploaded ==
  [][ refreshWrites =>
        ( /\ archive'.uploaded = archive.uploaded
          /\ SelectSeq(archive'.destroyed, LAMBDA image : inUploaded(archive, image.publicId))
               = SelectSeq(archive.destroyed, LAMBDA image : inUploaded(archive, image.publicId)) )
    ]_vars

\* C7 witness: after a refresh, a destroyed entry of a re-uploaded identity is still there
C7_Witness ==
  /\ mode = "idle"
  /\ refreshes >= 1
  /\ \E i \in 1..Len(archive.destroyed) : inUploaded(archive, archive.destroyed[i].publicId)

\* C8: a refresh that follows a refresh, with no write by upload-all or
\* delete-all in between, leaves `uploaded` and `destroyed` as they are.
C8_RefreshIdempotent ==
  [][ (refreshWrites /\ refreshes >= 1) => archive' = archive ]_vars

\* C8 witness: two refreshes in a row, the first of which pruned `destroyed`
C8_Witness ==
  /\ mode = "idle"
  /\ refreshes >= 2
  /\ archive.destroyed = <<>>
  /\ \E d \in Days : backup[d] # <<>> /\ backup[d][1].destroyed # <<>>

\* C9: a backup file that exists is never written again.
C9_BackupImmutable ==
  [][ \A d \in Days : backup[d] # <<>> => backup'[d] = backup[d] ]_vars

\* C10: an upload-all run that is not interrupted ends with every task
\* settled and with the dated listing of the records of this run written.
C10_UploadFailureSkipped ==
  [][ (mode = "all" /\ mode' = "idle" /\ exit' # "interrupted")
        => ( /\ \A i \in 1..Len(tasks) : settled(tasks[i])
             /\ listing'[today] = <<uploadResults>> ) ]_vars

\* C11: an upload task whose identity is in the archive's `uploaded` when
\* the existence check resolves does not go on to the gateway upload.
C11_SkipByArchive ==
  [][ \A i \in 1..Len(tasks) :
        ( /\ mode = "all"
          /\ mode' = "all"
          /\ tasks[i].pc = "list"
          /\ inUploaded(archive, generatePublicId(uploadDirFilePaths[i])) )
        => tasks'[i].pc # "upload" ]_vars

\* C12: when a run is killed, the identity of every upload that had
\* returned is in the persisted `uploaded`, and the identity of a destroy
\* that had returned is not.
C12_UnitsAtomic ==
  [][ exit' = "interrupted" =>
        ( /\ \A publicId \in inFlightUploads : inUploaded(archive', publicId)
          /\ (mode = "delete" /\ result = "ok") => ~inUploaded(archive', public_ids[idx]) ) ]_vars

\* C13: on an archive without the destroyed field, a delete iteration whose
\* gateway call returned moves the record, and refresh ends without an error.
C13_MissingFieldDefaulted ==
  [][ ~archive.hasDestroyed =>
        ( /\ ( /\ mode = "delete"
               /\ idx' = idx + 1
               /\ result = "ok"
               /\ inUploaded(archive, public_ids[idx]) )
             => ( /\ ~inUploaded(archive', public_ids[idx])
                  /\ inDestroyed(archive', public_ids[idx]) )
          /\ (mode = "refresh" /\ mode' = "idle" /\ exit' # "interrupted") => exit' = "ok" ) ]_vars

isImagePath(p) == extname(p) \in {<<".jpg">>, <<".png">>}
dogId == y2024 \o <<"/", "3", "/", "4", "/", "dog">>
dogJpg == [publicId |-> dogId, originalFilename |-> <<"dog", ".jpg">>]

\* the records and identities that the image files of a directory give
imageRecordsOf(filePaths) ==
  { imageInfoOf(filePaths[i]) :
      i \in { j \in 1..Len(filePaths) :
               isImagePath(filePaths[j]) /\ basename(filePaths[j]) # <<".gitkeep">> } }

\* the same for the directories of UploadDirs, computed once
imageRecordsOfUploadDirs == [filePaths \in UploadDirs |-> imageRecordsOf(filePaths)]

imageRecords ==
  IF files \in UploadDirs THEN imageRecordsOfUploadDirs[files] ELSE imageRecordsOf(files)

\* C14: no upload task exists for a .gitkeep file, a task for a file that is
\* not an image ends at the type check, and the store and the archive hold
\* nothing but what the image files give; dog.jpg is stored as 2024/3/4/dog.
C14_OnlyImagesUploaded ==
  LET paths == uploadDirFilePaths
      records == imageRecords
  IN  /\ \A i \in 1..Len(tasks) :
           /\ basename(paths[i]) # <<".gitkeep">>
           /\ ~isImagePath(paths[i]) => tasks[i].pc \in {"exists", "skipped"}
      /\ cloud \subseteq { r.publicId : r \in records }
      /\ \A i \in 1..Len(archive.uploaded) : archive.uploaded[i] \in records
      /\ \A i \in 1..Len(archive.uploaded) :
           archive.uploaded[i].originalFilename = <<"dog", ".jpg">>
             => archive.uploaded[i].publicId = dogId

\* C14 witness: next to .gitkeep and memo.txt, a batch has ended normally with dog.jpg uploaded
C14_Witness ==
  /\ mode = "idle"
  /\ exit = "ok"
  /\ \E i, j \in 1..Len(files) :
       basename(files[i]) = <<".gitkeep">> /\ basename(files[j]) = <<"memo", ".txt">>
  /\ \E d \in Days : listing[d] # <<>> /\ recordIn(listing[d][1], dogJpg)
  /\ recordIn(archive.uploaded, dogJpg)
  /\ dogId \in cloud

\* C18: a step that makes `destroyed` longer is a step of delete-all that
\* appends one record of `uploaded` and leaves its identity out of
\* `uploaded`; upload-all leaves `destroyed` as it is, and refresh only
\* takes entries away.
C18_DestroyedGrowsByMove ==
  [][ /\ Len(archive'.destroyed) > Len(archive.destroyed) =>
           ( /\ mode = "delete"
             /\ \E i \in 1..Len(archive.uploaded) :
                  /\ archive'.destroyed = Append(archive.destroyed, archive.uploaded[i])
                  /\ ~inUploaded(archive', archive.uploaded[i].publicId) )
      /\ mode = "all" => archive'.destroyed = archive.destroyed
      /\ mode = "refresh" =>
           \A i \in 1..Len(archive'.destroyed) :
             recordIn(archive.destroyed, archive'.destroyed[i]) ]_vars

\* C18 witness: both records of a run of delete-all have been moved
C18_Witness ==
  /\ mode = "delete"
  /\ outcomes = <<"ok", "ok">>
  /\ archive.uploaded = <<>>
  /\ Len(archive.destroyed) = 2

\* C20: an upload-all run that ends normally leaves every identity that an
\* earlier, killed run had uploaded without writing its record, and that
\* the store still holds, in `uploaded`.
C20_RecoversStranded ==
  [][ (mode = "all" /\ mode' = "idle" /\ exit' = "ok")
        => \A publicId \in stranded : publicId \in cloud' => inUploaded(archive', publicId) ]_vars

\* what remains of a path under uploadDir without the directory and without
\* the trailing extension
trailingExtensionRemoved(filePath) ==
  LET relativePath == SubSeq(filePath, Len(uploadDir) + 2, Len(filePath))
  IN  SubSeq(relativePath, 1, Len(relativePath) - Len(extname(relativePath)))

\* C15: the identity of every record that upload-all writes is the path of
\* its file relative to the upload directory with exactly the trailing
\* extension removed; it holds neither the directory prefix nor the
\* extension, also when the extension text occurs earlier in the path.
C15_IdentityDerived ==
  \A i \in 1..Len(archive.uploaded) :
    \E k \in 1..Len(files) :
      /\ archive.uploaded[i].originalFilename = basename(files[k])
      /\ archive.uploaded[i].publicId = trailingExtensionRemoved(files[k])
      /\ archive.uploaded[i].publicId = generatePublicId(files[k])
      /\ ~includes(archive.uploaded[i].publicId, uploadDir \o <<"/">>)
      /\ ~includes(archive.uploaded[i].publicId, extname(files[k]))

\* C17: a run of emit-docs-for-all never changes the archive; an identity
\* whose documentation fails ends its own iteration only, and the loop goes
\* on to the next identity; a run that is not killed ends normally after
\* one iteration for every identity of `uploaded`.
C17_DocFailureIsolated ==
  [][ mode = "original" =>
        ( /\ archive' = archive
          /\ (Len(outcomes') = Len(outcomes) + 1 /\ outcomes'[Len(outcomes')] = "error")
               => (mode' = "original" /\ idx' = idx + 1 /\ public_ids' = public_ids)
          /\ (mode' = "idle" /\ exit' # "interrupted")
               => ( /\ exit' = "ok"
                    /\ public_ids = publicIdsOf(archive.uploaded)
                    /\ Len(outcomes) = Len(public_ids) ) ) ]_vars

\* C17 witness: the first identity of `uploaded` is malformed and failed,
\* and the documentation of the second one has been written after it
C17_Witness ==
  /\ mode = "original"
  /\ idx > Len(public_ids)
  /\ outcomes = <<"error", "ok">>
  /\ matchPublicId(public_ids[1]) = <<>>
  /\ formatPublicId(public_ids[2]) \in DOMAIN docs
  /\ formatPublicId(public_ids[2]) \in DOMAIN html

\* C19: two distinct identities never share one documentation file or one
\* HTML file: every section of a documentation file is of the identity the
\* file was created for, and an HTML file keeps the identity it was
\* written for.
C19_DistinctTargets ==
  /\ \A name \in DOMAIN docs :
       \A k \in 1..Len(docs[name].sections) :
         docs[name].sections[k].publicId = docs[name].imageInfo.publicId
  /\ \A name \in DOMAIN html : html[name] = docs[name].imageInfo.publicId

\* a month or a day of two digits without its leading zero
unpadded(digits) == IF digits[1] = "0" THEN SubSeq(digits, 2, Len(digits)) ELSE digits

\* the directories year/month/day, unpadded, of the dated posts of postDir
skeletonDirs ==
  { uploadDir \o <<"/">> \o c.year \o <<"/">> \o unpadded(c.month) \o <<"/">> \o unpadded(c.day) :
      c \in { extractDateComponents(posts[i].lines)[1] :
                i \in { j \in 1..Len(posts) :
                          isMdx(posts[j]) /\ extractDateComponents(posts[j].lines) # <<>> } } }

\* the skeleton is in place: every directory with its placeholder file
skeletonExists(existing, filePaths) ==
  \A dir \in skeletonDirs :
    /\ dir \in existing
    /\ \E k \in 1..Len(filePaths) : filePaths[k] = dir \o <<"/", ".gitkeep">>

\* C16: a run of generate-skeleton that ends has created, for every post
\* with a date line, the directory year/month/day without padding and a
\* placeholder file inside it, so `date: 2024-05-06` gives upload/2024/5/6;
\* it never ends with an error, and once a run has ended a later run
\* changes neither the directories nor the files.
C16_SkeletonUnpadded ==
  [][ mode = "gen" =>
        ( /\ (mode' = "idle" /\ exit' # "interrupted")
               => (exit' = "ok" /\ skeletonExists(directories', files'))
          /\ skeletonExists(directories, files)
               => (directories' = directories /\ files' = files) ) ]_vars

====
